---- MODULE Spec2Model ----
(***************************************************************************)
(* Model of scripts/create_run_data.py: the regularized-evolution search   *)
(* loop run_revolution_search against the NAS-Bench-101 tabular oracle.    *)
(*                                                                         *)
(* Accuracies are floats in [0, 1] in the program; here they are integers  *)
(* (hundredths), 0 standing for the initial 0.0.  Python lists are         *)
(* 0-indexed; the sequences here are 1-indexed, so times[1] is the initial *)
(* 0.0 and times[i + 1] is the entry appended by the i-th oracle query.    *)
(* A ModelSpec is an object built anew by every random_spec / mutate_spec  *)
(* call; it is represented by its allocation number.                       *)
(***************************************************************************)
EXTENDS Integers, Sequences, FiniteSets, TLC

\* ---- bounds of the model ------------------------------------------------
MaxPop == 2          \* population_size ranges over 0..MaxPop
MaxTour == 2         \* tournament_size ranges over 0..MaxTour
MaxBudget == 1       \* max_time_budget ranges over -1..MaxBudget
MaxValid == 2        \* validation accuracies the oracle may return: 0..MaxValid

MaxPool == 3         \* random_combination alone: pools of 0..MaxPool entries
MaxFlips == 1        \* edges one mutation attempt flips: 0..MaxFlips
MaxResampled == 1    \* operations one mutation attempt resamples: 0..MaxResampled
MaxRejected == 2     \* candidates one random_spec / mutate_spec call sees rejected

MaxQueries == MaxBudget + 2   \* oracle queries explored per run
Budgets == (0 - 1)..MaxBudget
ValidAccs == 0..MaxValid
TestAccs == {0, 1}          \* test accuracies the oracle may return
TrainingTimes == {0, 1}     \* growth of the oracle's time counter per query
PositiveTimes == {1, 2}     \* the same, for an oracle whose counter always grows

VARIABLES
    pc,                \* "seed" | "evolve" | "done" | "error"
    max_time_budget, population_size, tournament_size,   \* arguments
    times, best_valids, best_tests,                      \* the trajectory
    population,        \* sequence of <<validation accuracy, spec>>
    seeded,            \* iterations of the seed loop completed
    sample, best_spec, \* locals of the last evolution step
    time_spent,        \* the oracle's cumulative time counter
    queries,           \* the oracle's log: one record per query answered
    \* random_spec / mutate_spec
    mutation_rate,     \* argument of mutate_spec
    specs,             \* the ModelSpec objects returned so far, by allocation number
    new_matrix, new_ops,   \* the candidate built by the last attempt
    verdict,           \* is_valid's answer for it: "none" | "valid" | "invalid"
    rejected,          \* candidates rejected in the call that built it
    \* the batch driver (__main__)
    repeat,            \* searches completed in the current loop
    valids_30, tests_30, valids_1000, tests_1000,
    run_data           \* the mapping handed to json.dump, <<>> until then

genvars == <<mutation_rate, specs, new_matrix, new_ops, verdict, rejected>>

drivervars == <<repeat, valids_30, tests_30, valids_1000, tests_1000, run_data>>

vars == <<pc, max_time_budget, population_size, tournament_size, times,
          best_valids, best_tests, population, seeded, sample, best_spec,
          time_spent, queries, genvars, drivervars>>

args == <<max_time_budget, population_size, tournament_size>>

Last(s) == s[Len(s)]

\* ---- the oracle (nasbench.query / get_budget_counters) -------------------
Data(V, T) == [validation_accuracy : V, test_accuracy : T]

\* ---- helpers of run_revolution_search ------------------------------------
\* The ModelSpec built by random_spec / mutate_spec for the next query.
NewSpec(log) == Len(log) + 1

\* Variants of the budget test: operands swapped, and >= for >.
ExceededReversed(t, budget) == budget > t

ExceededOrEqual(t, budget) == t >= budget

\* times.append(time_spent) ... if time_spent > max_time_budget: break
Exceeded(t, budget) == t > budget

\* Variants of the best-so-far update: the latest sample recorded instead of
\* the best; the comparison made against the initial entry instead of the last.
NextBestValidsLatest(bv, data) == Append(bv, data.validation_accuracy)

NextBestValidsStale(bv, data) ==
    IF data.validation_accuracy > bv[1]
    THEN Append(bv, data.validation_accuracy)
    ELSE Append(bv, Last(bv))

\* if data["validation_accuracy"] > best_valids[-1]: append it, else carry
NextBestValids(bv, data) ==
    IF data.validation_accuracy > Last(bv)
    THEN Append(bv, data.validation_accuracy)
    ELSE Append(bv, Last(bv))

\* Variants of the best_tests update: the latest test accuracy recorded; the
\* else branch (carry-forward) left out; a tie in validation accuracy replacing.
NextBestTestsLatest(bv, bt, data) == Append(bt, data.test_accuracy)

NextBestTestsNoCarry(bv, bt, data) ==
    IF data.validation_accuracy > Last(bv)
    THEN Append(bt, data.test_accuracy)
    ELSE bt

NextBestTestsOnTie(bv, bt, data) ==
    IF data.validation_accuracy >= Last(bv)
    THEN Append(bt, data.test_accuracy)
    ELSE Append(bt, Last(bt))

NextBestTests(bv, bt, data) ==
    IF data.validation_accuracy > Last(bv)
    THEN Append(bt, data.test_accuracy)
    ELSE Append(bt, Last(bt))

\* Variants of the replacement: no eviction; eviction of the entry with the
\* lowest validation accuracy (the earliest of them) instead of the oldest.
AppendOnly(pop, child) == Append(pop, child)

AppendAndEvictWorst(pop, child) ==
    LET all == Append(pop, child)
        w == CHOOSE i \in 1..Len(all) :
                 /\ \A j \in 1..Len(all) : all[i][1] <= all[j][1]
                 /\ \A j \in 1..(i - 1) : all[j][1] > all[i][1]
    IN  SubSeq(all, 1, w - 1) \o SubSeq(all, w + 1, Len(all))

\* population.append(child); population.pop(0)
AppendAndEvict(pop, child) == Tail(Append(pop, child))

\* ---- random_combination ---------------------------------------------------
\* The k-th smallest element of a set of naturals.
RECURSIVE KthSmallest(_, _)
KthSmallest(S, k) ==
    LET m == CHOOSE x \in S : \A y \in S : x <= y
    IN  IF k = 1 THEN m ELSE KthSmallest(S \ {m}, k - 1)

\* Variant: indices drawn with replacement (random.choices), so a position
\* can be drawn twice.
SortedIndexSamplesRepeating(n, sample_size) ==
    { ix \in [1..sample_size -> 1..n] :
        \A j \in 1..sample_size, k \in 1..sample_size : j < k => ix[j] <= ix[k] }

\* sorted(random.sample(range(n), sample_size)): the possible index lists
SortedIndexSamples(n, sample_size) ==
    { [k \in 1..sample_size |-> KthSmallest(I, k)] :
        I \in { J \in SUBSET (1..n) : Cardinality(J) = sample_size } }

\* tuple(pool[i] for i in indices), for every index list random.sample can give
random_combination(pool, sample_size) ==
    { [k \in 1..sample_size |-> pool[ix[k]]] :
        ix \in SortedIndexSamples(Len(pool), sample_size) }

\* Variant: a sample larger than the pool is not refused.
SampleNeverRaises(pool, sample_size) == sample_size < 0

\* random.sample raises ValueError when the sample is larger than the pool
SampleRaises(pool, sample_size) == sample_size > Len(pool) \/ sample_size < 0

\* ---- sorted(sample, key=lambda i: i[0])[-1][1] ----------------------------
\* Stable insertion of e into the ascending sequence s: after every entry
\* whose key is <= e's key.
RECURSIVE InsertStable(_, _)
InsertStable(s, e) ==
    IF s = <<>> THEN <<e>>
    ELSE IF Last(s)[1] <= e[1] THEN Append(s, e)
    ELSE Append(InsertStable(SubSeq(s, 1, Len(s) - 1), e), Last(s))

RECURSIVE SortedByAccuracy(_)
SortedByAccuracy(s) ==
    IF s = <<>> THEN <<>>
    ELSE InsertStable(SortedByAccuracy(SubSeq(s, 1, Len(s) - 1)), Last(s))

\* Variant of the selection: the first of the entries with the highest
\* accuracy (what max(sample, key=...) would give) instead of the last.
TournamentWinnerFirst(smp) ==
    LET k == CHOOSE i \in 1..Len(smp) :
                 /\ \A j \in 1..Len(smp) : smp[j][1] <= smp[i][1]
                 /\ \A j \in 1..(i - 1) : smp[j][1] < smp[i][1]
    IN  smp[k][2]

TournamentWinner(smp) == Last(SortedByAccuracy(smp))[2]

\* No specification content is tracked; no batch is running.
NoGen ==
    /\ mutation_rate = 0
    /\ specs = <<>>
    /\ new_matrix = {}
    /\ new_ops = <<>>
    /\ verdict = "none"
    /\ rejected = 0

NoDriver ==
    /\ repeat = 0
    /\ valids_30 = <<>>
    /\ tests_30 = <<>>
    /\ valids_1000 = <<>>
    /\ tests_1000 = <<>>
    /\ run_data = <<>>

\* ---- the state at line 128, before the seed loop, for arguments drawn
\* ---- from the given sets and an oracle whose counters were just reset
Start(B, P, K) ==
    /\ pc = "seed"
    /\ max_time_budget \in B
    /\ population_size \in P
    /\ tournament_size \in K
    /\ times = <<0>>
    /\ best_valids = <<0>>
    /\ best_tests = <<0>>
    /\ population = <<>>
    /\ seeded = 0
    /\ sample = <<>>
    /\ best_spec = 0
    /\ time_spent = 0
    /\ queries = <<>>
    /\ NoGen
    /\ NoDriver

Init == Start(Budgets, 0..MaxPop, 0..MaxTour)

\* Variant of the seed iteration: passing the budget ends the run instead of
\* only leaving the seed loop.
SeedQueryReturns(V, T, D, cap) ==
    /\ pc = "seed"
    /\ seeded < population_size
    /\ Len(queries) < cap
    /\ \E data \in Data(V, T), dt \in D :
        LET spec == NewSpec(queries)
            t == time_spent + dt
        IN  /\ time_spent' = t
            /\ queries' = Append(queries,
                   [spec |-> spec, data |-> data, time |-> t, phase |-> "seed"])
            /\ times' = Append(times, t)
            /\ population' = Append(population, <<data.validation_accuracy, spec>>)
            /\ best_valids' = NextBestValids(best_valids, data)
            /\ best_tests' = NextBestTests(best_valids, best_tests, data)
            /\ seeded' = seeded + 1
            /\ pc' = IF Exceeded(t, max_time_budget) THEN "done" ELSE "seed"
    /\ UNCHANGED <<args, sample, best_spec, genvars, drivervars>>

\* ---- one iteration of the seed loop (lines 132-147) ----------------------
SeedQuery(V, T, D, cap) ==
    /\ pc = "seed"
    /\ seeded < population_size
    /\ Len(queries) < cap
    /\ \E data \in Data(V, T), dt \in D :
        LET spec == NewSpec(queries)
            t == time_spent + dt
        IN  /\ time_spent' = t
            /\ queries' = Append(queries,
                   [spec |-> spec, data |-> data, time |-> t, phase |-> "seed"])
            /\ times' = Append(times, t)
            /\ population' = Append(population, <<data.validation_accuracy, spec>>)
            /\ best_valids' = NextBestValids(best_valids, data)
            /\ best_tests' = NextBestTests(best_valids, best_tests, data)
            /\ seeded' = seeded + 1
            /\ pc' = IF Exceeded(t, max_time_budget) THEN "evolve" ELSE "seed"
    /\ UNCHANGED <<args, sample, best_spec, genvars, drivervars>>

\* the seed loop runs out of iterations (range(population_size) exhausted)
SeedEnd ==
    /\ pc = "seed"
    /\ seeded = population_size
    /\ pc' = "evolve"
    /\ UNCHANGED <<args, times, best_valids, best_tests, population, seeded,
                   sample, best_spec, time_spent, queries, genvars, drivervars>>

\* ---- one iteration of the evolution loop (lines 149-170) -----------------
EvolveStep(V, T, D, cap) ==
    /\ pc = "evolve"
    /\ ~SampleRaises(population, tournament_size)
    /\ tournament_size > 0
    /\ Len(queries) < cap
    /\ \E smp \in random_combination(population, tournament_size),
          data \in Data(V, T), dt \in D :
        LET new_spec == NewSpec(queries)
            t == time_spent + dt
        IN  /\ sample' = smp
            /\ best_spec' = TournamentWinner(smp)
            /\ time_spent' = t
            /\ queries' = Append(queries,
                   [spec |-> new_spec, data |-> data, time |-> t, phase |-> "evolve"])
            /\ times' = Append(times, t)
            /\ population' =
                   AppendAndEvict(population, <<data.validation_accuracy, new_spec>>)
            /\ best_valids' = NextBestValids(best_valids, data)
            /\ best_tests' = NextBestTests(best_valids, best_tests, data)
            /\ pc' = IF Exceeded(t, max_time_budget) THEN "done" ELSE "evolve"
    /\ UNCHANGED <<args, seeded, genvars, drivervars>>

\* the tournament draw raises: ValueError from random.sample (line 115), or
\* IndexError from sorted(())[-1] on an empty sample (line 151)
EvolveRaises ==
    /\ pc = "evolve"
    /\ \/ SampleRaises(population, tournament_size)
       \/ tournament_size = 0
    /\ pc' = "error"
    /\ UNCHANGED <<args, times, best_valids, best_tests, population, seeded,
                   sample, best_spec, time_spent, queries, genvars, drivervars>>

Next ==
    \/ SeedQuery(ValidAccs, TestAccs, TrainingTimes, MaxQueries)
    \/ SeedEnd
    \/ EvolveStep(ValidAccs, TestAccs, TrainingTimes, MaxQueries)
    \/ EvolveRaises

Spec == Init /\ [][Next]_vars

\* ---- the run against an oracle whose time counter grows on every query,
\* ---- with tournament_size <= population_size; the loop is never starved
LiveInit == Init /\ tournament_size <= population_size

LiveNext ==
    \/ SeedQuery(ValidAccs, TestAccs, PositiveTimes, MaxQueries)
    \/ SeedEnd
    \/ EvolveStep(ValidAccs, TestAccs, PositiveTimes, MaxQueries)
    \/ EvolveRaises

LiveSpec == LiveInit /\ [][LiveNext]_vars /\ WF_vars(LiveNext)

\* ---- the end-to-end scenario: the n-th query returns accuracy n/100 and
\* ---- advances the counter by one; the budget is passed by the 10th query
ScenarioInit == Start({9}, {4, 5}, {2, 3})

ScenarioNext ==
    \/ SeedQuery({Len(queries) + 1}, {Len(queries) + 1}, {1}, 12)
    \/ SeedEnd
    \/ EvolveStep({Len(queries) + 1}, {Len(queries) + 1}, {1}, 12)

ScenarioSpec == ScenarioInit /\ [][ScenarioNext]_vars

\* ---- random_spec and mutate_spec -----------------------------------------
NUM_VERTICES == 7

OP_SPOTS == NUM_VERTICES - 2

INPUT == "input"

OUTPUT == "output"

CONV3X3 == "conv3x3-bn-relu"

CONV1X1 == "conv1x1-bn-relu"

MAXPOOL3X3 == "maxpool3x3"

ALLOWED_OPS == {CONV3X3, CONV1X1, MAXPOOL3X3}

\* nasbench.config["available_ops"]
available_ops == ALLOWED_OPS

Vertices == 0..(NUM_VERTICES - 1)

\* A binary matrix is the set of its positions <<row, column>> that hold 1;
\* a list of operations is a function on the vertices.

\* Variant: np.triu(matrix) keeps the diagonal.
TriuWithDiagonal(m) == { e \in m : e[2] - e[1] >= 0 }

\* np.triu(matrix, 1): the entries on or above the first superdiagonal
Triu(m) == { e \in m : e[2] - e[1] >= 1 }

\* ops[0] = INPUT; ops[-1] = OUTPUT
FixEnds(ops) == [ops EXCEPT ![0] = INPUT, ![NUM_VERTICES - 1] = OUTPUT]

\* ModelSpec(matrix, ops): the object keeps its own copies as original_matrix
\* and original_ops
ModelSpec(matrix, ops) == [original_matrix |-> matrix, original_ops |-> ops]

\* the draws of np.random.choice explored: matrices with ones on and below
\* the diagonal too, and operation lists with any allowed operation anywhere
RawMatrices ==
    { {<<0, 1>>, <<1, 6>>, <<3, 3>>, <<4, 2>>}, Vertices \X Vertices }

RawOps ==
    { [v \in Vertices |-> CONV3X3],
      [v \in Vertices |-> IF v % 2 = 0 THEN MAXPOOL3X3 ELSE CONV1X1] }

\* random.random() < mutation_rate / spots can come out true, or false
MayHit(rate, spots) == rate > 0

MayMiss(rate, spots) == rate < spots

\* the subsets of S of at most k elements
RECURSIVE SubsetsUpTo(_, _)
SubsetsUpTo(S, k) ==
    IF k = 0 THEN {{}}
    ELSE LET P == SubsetsUpTo(S, k - 1)
         IN  P \cup { p \cup {e} : p \in P, e \in S }

\* Variant: the inner loop starts at src, so a diagonal entry can be flipped.
MutationEdgesFromSrc ==
    { <<src, dst>> \in Vertices \X Vertices :
        src <= NUM_VERTICES - 2 /\ dst >= src }

\* for src in range(0, NUM_VERTICES - 1): for dst in range(src + 1, NUM_VERTICES)
MutationEdges ==
    { <<src, dst>> \in Vertices \X Vertices :
        src <= NUM_VERTICES - 2 /\ dst >= src + 1 }

\* the entries whose flips are followed: two above the diagonal, one on it and
\* one below it
ExploredEdges == {<<0, 1>>, <<2, 5>>, <<3, 3>>, <<4, 2>>}

\* the vertices whose resampling is followed: both ends and two interior ones
ExploredOps == {0, 1, NUM_VERTICES - 2, NUM_VERTICES - 1}

\* the sets of entries the edge loop can flip in one attempt
FlipSets(rate) ==
    { f \in SubsetsUpTo(MutationEdges \cap ExploredEdges, MaxFlips) :
        /\ f # {} => MayHit(rate, NUM_VERTICES)
        /\ f # MutationEdges => MayMiss(rate, NUM_VERTICES) }

\* new_matrix[src, dst] = 1 - new_matrix[src, dst], for every flipped entry
Flip(m, f) == (m \ f) \cup (f \ m)

\* Variant: the op loop runs over every vertex, the two ends included.
MutationOpsAll == Vertices

\* for ind in range(1, NUM_VERTICES - 1)
MutationOps == 1..(NUM_VERTICES - 2)

\* the operation lists the op loop can leave, resampling at most k vertices:
\* new_ops[ind] = random.choice of the available operations other than it
RECURSIVE ResampledUpTo(_, _)
ResampledUpTo(ops, k) ==
    IF k = 0 THEN {ops}
    ELSE LET P == ResampledUpTo(ops, k - 1)
         IN  P \cup UNION { UNION { { [o EXCEPT ![ind] = a] :
                                         a \in available_ops \ {o[ind]} } :
                                     ind \in MutationOps \cap ExploredOps } :
                             o \in P }

ResampledOps(ops, rate) ==
    IF MayHit(rate, OP_SPOTS) THEN ResampledUpTo(ops, MaxResampled) ELSE {ops}

\* ---- the search seen at the level of specification contents: every
\* ---- attempt of random_spec and mutate_spec is a step; the oracle's
\* ---- accuracies (all equal here) and its time counter are left out
GenInit ==
    /\ pc = "seed"
    /\ population_size \in {1, 2}
    /\ tournament_size \in {1, 2}
    /\ tournament_size <= population_size
    /\ mutation_rate \in {0, 1}
    /\ specs = <<>>
    /\ new_matrix = {}
    /\ new_ops = <<>>
    /\ verdict = "none"
    /\ rejected = 0
    /\ population = <<>>
    /\ seeded = 0
    /\ sample = <<>>
    /\ best_spec = 0
    /\ max_time_budget = 0
    /\ times = <<>>
    /\ best_valids = <<>>
    /\ best_tests = <<>>
    /\ time_spent = 0
    /\ queries = <<>>
    /\ NoDriver

\* Variant: the candidate is returned whatever is_valid answered.
ReturnsAlways(answer) == TRUE

\* if nasbench.is_valid(spec): return spec
Returns(answer) == answer

\* the candidates the running call has rejected before this attempt: a call
\* is running exactly when the last candidate was rejected
RejectedBefore == IF verdict = "invalid" THEN rejected ELSE 0

\* Variants of the start of a mutation attempt: the parent's own arrays are
\* used (no deepcopy), so the attempt's writes land in the parent; the attempt
\* goes on from the last rejected candidate.
ParentAliased(old, matrix, ops) == ModelSpec(matrix, ops)

AttemptBaseCarried(old, last_verdict, last_matrix, last_ops) ==
    IF last_verdict = "invalid" THEN ModelSpec(last_matrix, last_ops) ELSE old

\* new_matrix = copy.deepcopy(old_spec.original_matrix), the same for the
\* operations: the attempt starts from the parent's values, and the parent
\* keeps them whatever the attempt writes
AttemptBase(old, last_verdict, last_matrix, last_ops) == old

ParentAfterAttempt(old, matrix, ops) == old

\* one iteration of random_spec's loop (lines 71-80); a returned spec is
\* appended to the population by the seed loop (line 137)
RandomSpecAttempt ==
    /\ pc = "seed"
    /\ seeded < population_size
    /\ \E raw \in RawMatrices, rawops \in RawOps, answer \in BOOLEAN :
        LET matrix == Triu(raw)
            ops == FixEnds(rawops)
        IN  /\ answer \/ RejectedBefore < MaxRejected
            /\ rejected' = RejectedBefore + (IF answer THEN 0 ELSE 1)
            /\ new_matrix' = matrix
            /\ new_ops' = ops
            /\ verdict' = IF answer THEN "valid" ELSE "invalid"
            /\ IF Returns(answer)
               THEN /\ specs' = Append(specs, ModelSpec(matrix, ops))
                    /\ population' = Append(population, <<0, Len(specs) + 1>>)
                    /\ seeded' = seeded + 1
               ELSE UNCHANGED <<specs, population, seeded>>
    /\ UNCHANGED <<pc, args, times, best_valids, best_tests, sample, best_spec,
                   time_spent, queries, mutation_rate, drivervars>>

\* the tournament of one evolution step (lines 150-151), then mutate_spec is
\* entered; one child is followed
TournamentDraw ==
    /\ pc = "evolve"
    /\ Len(specs) = population_size
    /\ ~SampleRaises(population, tournament_size)
    /\ \E smp \in random_combination(population, tournament_size) :
        /\ sample' = smp
        /\ best_spec' = TournamentWinner(smp)
    /\ pc' = "mutate"
    /\ verdict' = "none"
    /\ UNCHANGED <<args, times, best_valids, best_tests, population, seeded,
                   time_spent, queries, mutation_rate, specs, new_matrix,
                   new_ops, rejected, drivervars>>

\* one iteration of mutate_spec's loop (lines 85-108); a returned child
\* replaces the oldest entry of the population (lines 159-160)
MutateSpecAttempt ==
    /\ pc = "mutate"
    /\ \E f \in FlipSets(mutation_rate), answer \in BOOLEAN :
        LET old == specs[best_spec]
            base == AttemptBase(old, verdict, new_matrix, new_ops)
            matrix == Flip(base.original_matrix, f)
        IN  \E ops \in ResampledOps(base.original_ops, mutation_rate) :
              LET kept == [specs EXCEPT
                              ![best_spec] = ParentAfterAttempt(old, matrix, ops)]
              IN  /\ answer \/ RejectedBefore < MaxRejected
                  /\ rejected' = RejectedBefore + (IF answer THEN 0 ELSE 1)
                  /\ new_matrix' = matrix
                  /\ new_ops' = ops
                  /\ verdict' = IF answer THEN "valid" ELSE "invalid"
                  /\ IF Returns(answer)
                     THEN /\ specs' = Append(kept, ModelSpec(matrix, ops))
                          /\ population' =
                                 AppendAndEvict(population, <<0, Len(specs) + 1>>)
                          /\ pc' = "evolve"
                     ELSE /\ specs' = kept
                          /\ UNCHANGED <<population, pc>>
    /\ UNCHANGED <<args, times, best_valids, best_tests, seeded, sample,
                   best_spec, time_spent, queries, mutation_rate, drivervars>>

GenNext ==
    \/ RandomSpecAttempt
    \/ SeedEnd
    \/ TournamentDraw
    \/ MutateSpecAttempt

GenSpec == GenInit /\ [][GenNext]_vars

\* ---- the batch driver (__main__) ------------------------------------------
\* Each search is one step: its queries are summed up in the time the
\* oracle's counter gains and in the trajectories it returns.
budget == 1000000

n_30 == 30

n_1000 == 1000

driver_population_size == 32

default_tournament_size == 10

\* Variant: reset_budget_counters leaves the counter as it is.
KeepBudgetCounters(t) == t

\* nasb.reset_budget_counters()
reset_budget_counters(t) == 0

\* the counter's gain over the first query of a search, and over the rest of
\* it up to the query that stops it
FirstQueryTimes == {1, budget + 1}

RestTimes == {budget, budget + 1}

DriverInit ==
    /\ pc = "loop30"
    /\ max_time_budget = budget
    /\ population_size = driver_population_size
    /\ tournament_size = default_tournament_size
    /\ time_spent = 0
    /\ times = <<>>
    /\ best_valids = <<>>
    /\ best_tests = <<>>
    /\ population = <<>>
    /\ seeded = 0
    /\ sample = <<>>
    /\ best_spec = 0
    /\ queries = <<>>
    /\ NoGen
    /\ NoDriver

\* for repeat in range(n): nasb.reset_budget_counters()
DriverReset(n, body) ==
    /\ repeat < n
    /\ time_spent' = reset_budget_counters(time_spent)
    /\ pc' = body
    /\ UNCHANGED <<args, times, best_valids, best_tests, population, seeded,
                   sample, best_spec, queries, genvars, drivervars>>

\* _, best_valid, best_test = run_revolution_search(nasb, budget, 32), when
\* it returns: the first query stays within the budget, a later one exceeds
\* it.  Returns the lists with their last entries appended.
DriverSearch(head) ==
    /\ \E first \in FirstQueryTimes, rest \in RestTimes :
        /\ ~Exceeded(time_spent + first, max_time_budget)
        /\ Exceeded(time_spent + first + rest, max_time_budget)
        /\ time_spent' = time_spent + first + rest
        /\ times' = <<0, time_spent + first, time_spent + first + rest>>
    /\ best_valids' = <<0, 1, 2>>
    /\ best_tests' = <<0, 1, 1>>
    /\ repeat' = repeat + 1
    /\ pc' = head
    /\ UNCHANGED <<args, population, seeded, sample, best_spec, queries,
                   genvars, run_data>>

\* the same call, when its first query exceeds the budget: the seed loop
\* stops with one entry, the sample raises, and the driver ends there
DriverSearchRaises ==
    /\ \E first \in FirstQueryTimes :
        /\ Exceeded(time_spent + first, max_time_budget)
        /\ SampleRaises(<<<<1, 1>>>>, tournament_size)
        /\ time_spent' = time_spent + first
    /\ pc' = "error"
    /\ UNCHANGED <<args, times, best_valids, best_tests, population, seeded,
                   sample, best_spec, queries, genvars, drivervars>>

Reset30 ==
    /\ pc = "loop30"
    /\ DriverReset(n_30, "search30")

Search30 ==
    /\ pc = "search30"
    /\ DriverSearch("loop30")
    /\ valids_30' = Append(valids_30, Last(best_valids'))
    /\ tests_30' = Append(tests_30, Last(best_tests'))
    /\ UNCHANGED <<valids_1000, tests_1000>>

Raises30 ==
    /\ pc = "search30"
    /\ DriverSearchRaises

\* the first loop is over: print, then the second loop starts
Exit30 ==
    /\ pc = "loop30"
    /\ repeat = n_30
    /\ repeat' = 0
    /\ pc' = "loop1000"
    /\ UNCHANGED <<args, times, best_valids, best_tests, population, seeded,
                   sample, best_spec, time_spent, queries, genvars,
                   valids_30, tests_30, valids_1000, tests_1000, run_data>>

Reset1000 ==
    /\ pc = "loop1000"
    /\ DriverReset(n_1000, "search1000")

Search1000 ==
    /\ pc = "search1000"
    /\ DriverSearch("loop1000")
    /\ valids_1000' = Append(valids_1000, Last(best_valids'))
    /\ tests_1000' = Append(tests_1000, Last(best_tests'))
    /\ UNCHANGED <<valids_30, tests_30>>

Raises1000 ==
    /\ pc = "search1000"
    /\ DriverSearchRaises

\* the second loop is over: run_data is built and handed to json.dump
Save ==
    /\ pc = "loop1000"
    /\ repeat = n_1000
    /\ run_data' = [valids_30 |-> valids_30, valids_1000 |-> valids_1000,
                    tests_30 |-> tests_30, tests_1000 |-> tests_1000]
    /\ pc' = "saved"
    /\ UNCHANGED <<args, times, best_valids, best_tests, population, seeded,
                   sample, best_spec, time_spent, queries, genvars, repeat,
                   valids_30, tests_30, valids_1000, tests_1000>>

DriverNext ==
    \/ Reset30
    \/ Search30
    \/ Raises30
    \/ Exit30
    \/ Reset1000
    \/ Search1000
    \/ Raises1000
    \/ Save

DriverSpec == DriverInit /\ [][DriverNext]_vars

\* ---- random_combination called on its own: the pool is held in population,
\* ---- sample_size in tournament_size, the returned tuple in sample
PoolEntries == {0, 1} \X {1, 2}

Pools == UNION { [1..n -> PoolEntries] : n \in 0..MaxPool }

CombInit ==
    /\ pc = "call"
    /\ population \in Pools
    /\ tournament_size \in 0..MaxPool
    /\ sample = <<>>
    /\ max_time_budget = 0
    /\ population_size = 0
    /\ times = <<>>
    /\ best_valids = <<>>
    /\ best_tests = <<>>
    /\ seeded = 0
    /\ best_spec = 0
    /\ time_spent = 0
    /\ queries = <<>>
    /\ NoGen
    /\ NoDriver

CombReturn ==
    /\ pc = "call"
    /\ ~SampleRaises(population, tournament_size)
    /\ sample' \in random_combination(population, tournament_size)
    /\ pc' = "returned"
    /\ UNCHANGED <<args, times, best_valids, best_tests, population, seeded,
                   best_spec, time_spent, queries, genvars, drivervars>>

CombRaises ==
    /\ pc = "call"
    /\ SampleRaises(population, tournament_size)
    /\ pc' = "error"
    /\ UNCHANGED <<args, times, best_valids, best_tests, population, seeded,
                   sample, best_spec, time_spent, queries, genvars, drivervars>>

CombNext == CombReturn \/ CombRaises

CombSpec == CombInit /\ [][CombNext]_vars

\* ======================= properties ========================================
ExceedsAt(i) == queries[i].time > max_time_budget

ValidAt(i) == queries[i].data.validation_accuracy

TestAt(i) == queries[i].data.test_accuracy

MaxOf(S) == CHOOSE x \in S : \A y \in S : y <= x

MinOf(S) == CHOOSE x \in S : \A y \in S : x <= y

Terminated == pc \in {"done", "error"}

AfterEvolveStep == Len(queries) > 0 /\ Last(queries).phase = "evolve"

\* C1 (as stated): no oracle query is issued once a reported time has exceeded
\* the budget, so only the last reported time can exceed max_time_budget.
C1_Original ==
    \A i \in 1..Len(queries) : ExceedsAt(i) => i = Len(queries)

\* C1 (amended): each phase stops at its first query whose reported time
\* exceeds the budget, but a seed phase stopped that way is still followed by
\* an evolution query.  A reported time that exceeds the budget is the last
\* one, or it is the last seed query's and exactly one evolution query
\* follows it; a returned run's last reported time exceeds the budget.
C1_StopsAfterExceed ==
    /\ \A i \in 1..Len(queries) : times[i + 1] = queries[i].time
    /\ \A i \in 1..Len(queries) : ExceedsAt(i) =>
          \/ i = Len(queries)
          \/ /\ i = Len(queries) - 1
             /\ queries[i].phase = "seed"
             /\ queries[i + 1].phase = "evolve"
    /\ pc = "done" => (Len(queries) > 0 /\ ExceedsAt(Len(queries)))

C1_Witness ==
    /\ pc = "done"
    /\ Len(queries) >= 2
    /\ queries[Len(queries) - 1].phase = "seed"
    /\ ExceedsAt(Len(queries) - 1)
    /\ seeded < population_size

\* C2 (as stated): with a counter that grows on every query and
\* tournament_size <= population_size, the run eventually returns; so a run
\* that has ended, with a tournament of at least one entry, has returned.
C2_Original == (tournament_size >= 1 /\ Terminated) => pc = "done"

C2_QueryBound ==
    /\ \A i \in 1..Len(queries) : ExceedsAt(i) =>
          Len(queries) <= i + (IF queries[i].phase = "seed" THEN 1 ELSE 0)
    /\ Len(queries) <= (IF max_time_budget < 0 THEN 1 ELSE max_time_budget + 1) + 1

C2_ErrorCause ==
    pc = "error" => (Len(population) < tournament_size \/ tournament_size = 0)

\* C2 (amended): with a counter that grows by at least 1 on every query and
\* tournament_size <= population_size, the run eventually ends: it returns,
\* or the tournament draw raises because the seed phase stopped on budget with
\* fewer than tournament_size entries placed (or tournament_size is 0).  The
\* queries made never exceed the number needed to pass the budget, plus one
\* when the budget was passed in the seed phase.
C2_EndsWithinBound ==
    /\ <>Terminated
    /\ []C2_QueryBound
    /\ []C2_ErrorCause

C2_Witness ==
    /\ pc = "done"
    /\ max_time_budget >= 0
    /\ Len(queries) = max_time_budget + 2

\* C3: best_valids[i] is the maximum validation accuracy returned by the
\* first i oracle queries, seed and evolution queries alike.
C3_BestIsMaxSoFar ==
    /\ Len(best_valids) = Len(queries) + 1
    /\ \A i \in 1..Len(queries) :
          best_valids[i + 1] = MaxOf({ValidAt(j) : j \in 1..i})

C3_Witness ==
    /\ pc = "done"
    /\ \E i \in 1..Len(queries), j \in 1..Len(queries) :
          /\ i < j
          /\ queries[i].phase = "seed"
          /\ queries[j].phase = "evolve"
          /\ ValidAt(j) < ValidAt(i)
          /\ Last(best_valids) = ValidAt(i)

\* C4: best_valids is non-decreasing in every reachable state.
C4_BestValidsMonotone ==
    \A i \in 1..(Len(best_valids) - 1) : best_valids[i] <= best_valids[i + 1]

C4_Witness ==
    /\ Len(queries) >= 2
    /\ best_valids[2] > 0
    /\ ValidAt(2) < best_valids[2]

\* C5 (as stated): best_tests is non-decreasing in every reachable state.
C5_Original ==
    \A i \in 1..(Len(best_tests) - 1) : best_tests[i] <= best_tests[i + 1]

\* C5 (amended): best_tests can decrease, and only at a query that strictly
\* improves the best validation accuracy while returning a test accuracy below
\* the current best_tests entry; at every other index it does not decrease.
C5_TestsDropOnlyOnImprovement ==
    /\ Len(best_tests) = Len(queries) + 1
    /\ \A i \in 1..Len(queries) :
          best_tests[i + 1] < best_tests[i] =>
              /\ ValidAt(i) > best_valids[i]
              /\ TestAt(i) < best_tests[i]
              /\ best_tests[i + 1] = TestAt(i)

C5_Witness ==
    \E i \in 1..Len(queries) : best_tests[i + 1] < best_tests[i]

\* C6 (as stated): at the end of every evolution step the population holds
\* exactly population_size entries.
C6_Original == AfterEvolveStep => Len(population) = population_size

\* C6 (amended): at the end of every evolution step the population holds
\* exactly as many entries as the seed phase placed: population_size when all
\* seeds were placed, fewer when the seed phase stopped early on budget.
C6_PopulationKeepsSeededSize ==
    AfterEvolveStep =>
        /\ Len(population) = seeded
        /\ \/ seeded = population_size
           \/ /\ seeded < population_size
              /\ queries[seeded].phase = "seed"
              /\ ExceedsAt(seeded)

C6_Witness ==
    /\ AfterEvolveStep
    /\ Len(population) < population_size

\* C7: eviction is by age: the population is exactly the (accuracy, spec)
\* pairs of the most recent len(population) oracle queries, in query order.
C7_PopulationIsRecentQueries ==
    /\ Len(population) <= Len(queries)
    /\ \A k \in 1..Len(population) :
          LET q == queries[Len(queries) - Len(population) + k]
          IN  population[k] = <<q.data.validation_accuracy, q.spec>>

C7_Witness ==
    /\ AfterEvolveStep
    /\ Len(population) >= 2
    /\ Len(queries) > Len(population)
    /\ \A k \in 1..Len(population) :
          population[k][1] < ValidAt(Len(queries) - Len(population))

\* C8: times, best_valids and best_tests have equal length in every state,
\* one entry per oracle query made beyond the initial one.
C8_Lockstep ==
    /\ Len(times) = Len(best_valids)
    /\ Len(best_valids) = Len(best_tests)
    /\ Len(best_tests) = Len(queries) + 1

C8_Witness ==
    /\ AfterEvolveStep
    /\ queries[1].phase = "seed"
    /\ best_valids[Len(best_valids)] = best_valids[Len(best_valids) - 1]

\* C9 (as stated): in the scenario whose 10th query passes the budget the
\* returned sequences have exactly 10 entries each.
C9_Original ==
    pc = "done" =>
        /\ Len(times) = 10
        /\ Len(best_valids) = 10
        /\ Len(best_tests) = 10

\* C9 (amended): the returned sequences hold the initial 0.0 entry plus one
\* entry per oracle query: 11 entries each in the scenario whose 10th query
\* passes the budget.
C9_InitialPlusOnePerQuery ==
    pc = "done" =>
        /\ Len(queries) = 10
        /\ Len(times) = 11
        /\ Len(best_valids) = 11
        /\ Len(best_tests) = 11
        /\ times[1] = 0 /\ best_valids[1] = 0 /\ best_tests[1] = 0

C9_Witness ==
    /\ pc = "done"
    /\ population_size = 5
    /\ tournament_size = 3
    /\ Len(queries) = 10
    /\ ~ExceedsAt(9)

EarliestBest(i) == MinOf({j \in 1..i : ValidAt(j) = best_valids[i + 1]})

\* C10 (as stated): best_tests[i] is the test accuracy of the earliest query
\* whose validation accuracy is the one recorded in best_valids[i].
C10_Original ==
    \A i \in 1..Len(queries) : best_tests[i + 1] = TestAt(EarliestBest(i))

\* C10 (amended): wherever best_valids[i] is above the initial 0.0,
\* best_tests[i] is the test accuracy of the earliest query whose validation
\* accuracy is the one recorded in best_valids[i]; while best_valids[i] is
\* still the initial 0.0, best_tests[i] is the initial 0.0 too.
C10_TestOfEarliestBest ==
    \A i \in 1..Len(queries) :
        IF best_valids[i + 1] > 0
        THEN best_tests[i + 1] = TestAt(EarliestBest(i))
        ELSE best_tests[i + 1] = 0

C10_Witness ==
    \E j \in 1..Len(queries), k \in 1..Len(queries) :
        /\ j < k
        /\ ValidAt(j) = ValidAt(k)
        /\ ValidAt(j) = best_valids[k + 1]
        /\ ValidAt(j) > 0
        /\ TestAt(j) # TestAt(k)

\* C11: the parent of an evolution step is an entry of the sampled tournament
\* whose validation accuracy is >= that of every other sampled entry; among
\* the entries tied for the highest accuracy it is the one latest in the
\* population, the sample being in population order.
C11_ParentIsLatestBest ==
    AfterEvolveStep =>
        /\ Len(sample) = tournament_size
        /\ \A j \in 1..Len(sample), k \in 1..Len(sample) :
              j < k => sample[j][2] < sample[k][2]
        /\ \E k \in 1..Len(sample) :
              /\ sample[k][2] = best_spec
              /\ \A j \in 1..Len(sample) : sample[j][1] <= sample[k][1]
              /\ \A j \in (k + 1)..Len(sample) : sample[j][1] < sample[k][1]

C11_Witness ==
    /\ AfterEvolveStep
    /\ Len(sample) = 2
    /\ sample[1][1] = sample[2][1]
    /\ best_spec = sample[2][2]

\* C14: the population never holds more than population_size entries, at the
\* end of the seed phase and of every evolution step.
C14_PopulationBounded == Len(population) <= population_size

C14_Witness ==
    /\ pc = "done"
    /\ population_size >= 2
    /\ Len(population) = population_size

\* C16: a run that has returned has made at least one evolution-phase query
\* after the seed phase, whatever the budget.
C16_ReturnsAfterEvolution ==
    pc = "done" =>
        /\ Len(queries) > seeded
        /\ \A i \in 1..Len(queries) :
              queries[i].phase = (IF i <= seeded THEN "seed" ELSE "evolve")

C16_Witness ==
    /\ pc = "done"
    /\ max_time_budget <= 0
    /\ seeded < population_size
    /\ ExceedsAt(seeded)
    /\ Len(queries) = seeded + 1

ShortPopulation ==
    /\ pc \in {"evolve", "done", "error"}
    /\ Len(population) < tournament_size

\* C17: when the evolution phase starts with fewer than tournament_size
\* entries, the first tournament draw raises: no evolution query is made, the
\* run does not return, and the only step open is the one into the error state.
C17_ShortPopulationRaises ==
    ShortPopulation =>
        /\ pc # "done"
        /\ Len(queries) = seeded
        /\ sample = <<>>
        /\ pc = "evolve" =>
              /\ ENABLED EvolveRaises
              /\ ~ENABLED EvolveStep(ValidAccs, TestAccs, TrainingTimes, MaxQueries)

C17_Witness ==
    /\ pc = "error"
    /\ tournament_size <= population_size
    /\ 0 < Len(population)
    /\ Len(population) < tournament_size

\* C12: for 0 <= sample_size <= len(pool), random_combination returns exactly
\* sample_size entries taken from pairwise distinct positions of the pool, in
\* the pool's relative order; it has a result for every such sample_size.
C12_DistinctPositionsInOrder ==
    /\ pc = "returned" =>
          /\ Len(sample) = tournament_size
          /\ \E ix \in [1..tournament_size -> 1..Len(population)] :
                /\ \A j \in 1..tournament_size, k \in 1..tournament_size :
                      j < k => ix[j] < ix[k]
                /\ \A k \in 1..tournament_size : sample[k] = population[ix[k]]
    /\ (pc = "call" /\ tournament_size <= Len(population)) => ENABLED CombReturn

C12_Witness ==
    /\ pc = "returned"
    /\ Len(population) = 3
    /\ tournament_size = 2
    /\ population[1] # population[2]
    /\ sample = <<population[1], population[3]>>
    /\ sample[1] = sample[2]

\* ---- properties of random_spec and mutate_spec (GenSpec) ------------------
Candidate == ModelSpec(new_matrix, new_ops)

Returned == { specs[i] : i \in 1..Len(specs) }

ParentSpec == specs[best_spec]

StrictlyUpper(m) == \A e \in m : e[1] < e[2]

EndsFixed(ops) == ops[0] = INPUT /\ ops[NUM_VERTICES - 1] = OUTPUT

\* the vertices where two operation lists differ
OpsChanged(a, b) == { v \in Vertices : a[v] # b[v] }

\* C13: a specification is returned (and so enters the population) only in a
\* step where is_valid accepted exactly that candidate; a step where is_valid
\* rejected the candidate returns nothing and leaves the population alone, and
\* the loop stays ready to try again; the population refers to returned
\* specifications only.  is_valid's answers are arbitrary and mutation_rate is
\* 0 or 1.
C13_OnlyAcceptedReturned ==
    [][ /\ specs' # specs =>
            /\ verdict' = "valid"
            /\ specs' = Append(specs, ModelSpec(new_matrix', new_ops'))
        /\ verdict' = "invalid" =>
            /\ specs' = specs
            /\ population' = population
            /\ pc' = pc
        /\ \A i \in 1..Len(population') :
              population'[i][2] \in 1..Len(specs')
      ]_vars

\* mutate_spec, at mutation_rate 1, has just rejected its second candidate in
\* a row, one that differs from the parent and was never returned
C13_Witness ==
    /\ pc = "mutate"
    /\ mutation_rate = 1
    /\ verdict = "invalid"
    /\ rejected = 2
    /\ Candidate \notin Returned
    /\ Candidate # ParentSpec

\* C15: every returned specification, and every candidate built, has "input"
\* at vertex 0, "output" at the last vertex and ones above the diagonal only;
\* a mutation candidate differs from its parent only in entries with
\* src < dst and in the operations of the vertices 1..NUM_VERTICES-2.
C15_ShapeKept ==
    /\ \A i \in 1..Len(specs) :
          /\ EndsFixed(specs[i].original_ops)
          /\ StrictlyUpper(specs[i].original_matrix)
    /\ verdict # "none" =>
          /\ EndsFixed(new_ops)
          /\ StrictlyUpper(new_matrix)
    /\ (pc = "mutate" /\ verdict # "none") =>
          /\ StrictlyUpper(Flip(new_matrix, ParentSpec.original_matrix))
          /\ OpsChanged(new_ops, ParentSpec.original_ops)
                 \subseteq 1..(NUM_VERTICES - 2)

\* mutate_spec returned a child with a flipped edge and a resampled interior
\* operation, the parent having come from the full random matrix
C15_Witness ==
    /\ pc = "evolve"
    /\ Len(specs) = population_size + 1
    /\ verdict = "valid"
    /\ Cardinality(ParentSpec.original_matrix) > 2
    /\ Flip(new_matrix, ParentSpec.original_matrix) # {}
    /\ OpsChanged(new_ops, ParentSpec.original_ops) # {}
    /\ Last(specs) = Candidate

\* C18: no returned specification ever changes, the parent of a running
\* mutate_spec included; every mutation candidate, on a first attempt or on a
\* retry, is within one attempt's flips and resamplings of the parent; and
\* the step that returns the child changes the population by dropping its
\* oldest entry and appending the child, nothing else.
C18_AttemptFromParent ==
    (pc = "mutate" /\ verdict # "none") =>
        /\ \E f \in FlipSets(mutation_rate) :
              new_matrix = Flip(ParentSpec.original_matrix, f)
        /\ new_ops \in ResampledOps(ParentSpec.original_ops, mutation_rate)

C18_ParentUntouched ==
    /\ []C18_AttemptFromParent
    /\ [][ /\ \A i \in 1..Len(specs) : specs'[i] = specs[i]
           /\ (pc = "mutate" /\ pc' = "evolve") =>
                 /\ Len(population') = Len(population)
                 /\ \A i \in 1..(Len(population) - 1) :
                       population'[i] = population[i + 1]
                 /\ Last(population')[2] = Len(specs')
                 /\ Last(specs') = ModelSpec(new_matrix', new_ops')
         ]_vars

\* mutate_spec returned a child that differs from its parent after two
\* rejected attempts, and the parent is still in a population of two
C18_Witness ==
    /\ pc = "evolve"
    /\ Len(specs) = population_size + 1
    /\ population_size = 2
    /\ rejected = 2
    /\ verdict = "valid"
    /\ Last(specs) # ParentSpec
    /\ \E i \in 1..Len(population) : population[i][2] = best_spec

\* ---- properties of the batch driver (DriverSpec) ---------------------------
Searching == pc \in {"search30", "search1000"}

\* C19: every search of the driver starts with the oracle's time counter at
\* zero, and a search that returned had its first query within the budget,
\* whatever the searches before it consumed; every returned search adds one
\* value to its validation list and one to its test list, the last entries of
\* the lists it returned (repeat counts them); the mapping handed to json.dump
\* holds those lists, of lengths 30, 1000, 30 and 1000.
C19_ResetAndOneValuePerSearch ==
    /\ Searching => time_spent = 0
    /\ Len(times) > 0 => ~Exceeded(times[2], budget)
    /\ pc \in {"loop30", "search30"} =>
          /\ Len(valids_30) = repeat
          /\ Len(valids_1000) = 0
    /\ pc \in {"loop1000", "search1000", "saved"} =>
          /\ Len(valids_30) = n_30
          /\ Len(valids_1000) = repeat
    /\ Len(tests_30) = Len(valids_30)
    /\ Len(tests_1000) = Len(valids_1000)
    /\ \A i \in 1..Len(valids_30) :
          valids_30[i] = Last(best_valids) /\ tests_30[i] = Last(best_tests)
    /\ \A i \in 1..Len(valids_1000) :
          valids_1000[i] = Last(best_valids) /\ tests_1000[i] = Last(best_tests)
    /\ pc = "saved" =>
          /\ run_data.valids_30 = valids_30
          /\ run_data.valids_1000 = valids_1000
          /\ run_data.tests_30 = tests_30
          /\ run_data.tests_1000 = tests_1000
          /\ Len(run_data.valids_30) = 30
          /\ Len(run_data.valids_1000) = 1000
          /\ Len(run_data.tests_30) = 30
          /\ Len(run_data.tests_1000) = 1000

\* all 30 + 1000 searches returned, the last one having consumed more than the
\* budget, and the lists were handed to json.dump
C19_Witness ==
    /\ pc = "saved"
    /\ repeat = n_1000
    /\ Exceeded(time_spent, budget)
    /\ Len(run_data.tests_1000) = n_1000

====
